---- MODULE Spec2Model ----
(***************************************************************************)
(* yieldy-for: yieldyForLoop(items, processFn, {fps, hiddenThreshold}).    *)
(*                                                                         *)
(* A state machine of src/src/index.js.  Two invocations of the async      *)
(* function run in one host (one JavaScript thread).  The host owns the    *)
(* clock (performance.now), the visibility flag (document.hidden), the     *)
(* optional scheduler.yield primitive and the callbacks registered with    *)
(* setTimeout / requestAnimationFrame.  An invocation runs synchronously   *)
(* (it holds the thread: running = i) from its call or its resumption up   *)
(* to its next await or its end; only the clock moves meanwhile.           *)
(*                                                                         *)
(* Time is in whole milliseconds.  With whole readings d, d > 1000/fps     *)
(* holds exactly when d > (1000 \div fps), so the floor of the batch       *)
(* duration decides as the code's fraction does.                           *)
(***************************************************************************)
EXTENDS Integers, Sequences, FiniteSets, TLC

\* ---------------------------------------------------------------- bounds

\* The clock reads 0..MaxTime.
MaxTime == 3

\* Sequences handed to an invocation have at most MaxLen elements.
MaxLen == 2

\* ------------------------------------------------------ program constants

DEFAULT_FPS == 30
DEFAULT_HIDDEN_THRESHOLD == 500
HIDDEN_TIMEOUT == 1
RACE_TIMEOUT == 100

\* ---------------------------------------------------------------- inputs

Inv == {1, 2}

Values == {"a", "b"}

RECURSIVE SeqsUpTo(_)
SeqsUpTo(n) ==
  IF n = 0 THEN {<<>>}
  ELSE LET shorter == SeqsUpTo(n - 1)
       IN  shorter \cup {Append(s, v) : s \in {t \in shorter : Len(t) = n - 1}, v \in Values}

\* First argument: something iterable (an array) or not (null, a number).
ItemsArgs ==
  {[kind |-> "null", elems |-> <<>>], [kind |-> "number", elems |-> <<>>]}
    \cup {[kind |-> "array", elems |-> s] : s \in SeqsUpTo(MaxLen)}

\* Second argument: typeof processFn.
FnArgs == {"function", "string"}

\* Third argument: an option is absent (<<>>) or given (<<v>>).
OptionsArgs ==
  {[fps |-> <<>>, hiddenThreshold |-> <<>>],
   [fps |-> <<1000>>, hiddenThreshold |-> <<0>>],
   [fps |-> <<500>>, hiddenThreshold |-> <<2>>]}

CallArgs == [items : ItemsArgs, processFn : FnArgs, options : OptionsArgs]

NoArgs == [items |-> [kind |-> "null", elems |-> <<>>], processFn |-> "string",
           options |-> [fps |-> <<>>, hiddenThreshold |-> <<>>]]

\* What processFn throws, and what a failing scheduler.yield rejects with.
CallbackError == "Test error"
YieldError == "yield rejected"

\* ------------------------------------------------------------------ state

VARIABLES
  now,              \* performance.now()
  hidden,           \* document.hidden
  hasScheduler,     \* typeof scheduler.yield === "function"
  running,          \* the invocation holding the thread, 0 when the host does
  pending,          \* callbacks registered with setTimeout / requestAnimationFrame
  args,             \* the arguments of each invocation
  pc,               \* where each invocation stands
  cursor,           \* elements taken from the iterator so far
  BATCH_DURATION,   \* const BATCH_DURATION
  timeOfLastYield,  \* let timeOfLastYield
  calls,            \* the arguments processFn has been called with, in order
  result,           \* the returned promise
  thrown,           \* the call of processFn that threw, 0 when none did
  timeouts,         \* setTimeout invocations
  rafs,             \* requestAnimationFrame invocations
  yields,           \* scheduler.yield invocations
  clockReads,       \* performance.now invocations
  clockMoved,       \* the clock has advanced since the invocation started
  seen              \* the visibility states the host has had during the invocation

vars == <<now, hidden, hasScheduler, running, pending, args, pc, cursor,
          BATCH_DURATION, timeOfLastYield, calls, result, thrown, timeouts,
          rafs, yields, clockReads, clockMoved, seen>>

hostVars == <<now, hidden, hasScheduler>>
counters == <<timeouts, rafs, yields>>

Pending == [state |-> "pending", error |-> ""]
Resolved == [state |-> "resolved", error |-> ""]
Rejected(e) == [state |-> "rejected", error |-> e]

Visibility(h) == IF h THEN "hidden" ELSE "visible"

Active(i) == pc[i] \notin {"init", "off", "done"}

\* ------------------------------------------------------- pure functions

isIterable(obj) == obj.kind # "null" /\ obj.kind = "array"

\* Mutant of ArgumentError: processFn is not checked.
ArgumentErrorItemsOnly(items, processFn) ==
  IF ~isIterable(items) THEN "items must be iterable" ELSE ""

\* The argument checks: the message of the TypeError thrown, "" when none is.
ArgumentError(items, processFn) ==
  IF ~isIterable(items) THEN "items must be iterable"
  ELSE IF processFn # "function" THEN "processFn must be a function"
  ELSE ""

\* Destructuring with a default value.
OptionOr(opt, default) == IF opt = <<>> THEN default ELSE opt[1]

BatchDuration(fps) == 1000 \div fps

\* Mutant of Threshold: the two branches are swapped.
ThresholdSwapped(isHidden, hiddenThreshold, batch) ==
  IF isHidden THEN batch ELSE hiddenThreshold

\* Mutant of Threshold: document.hidden is not consulted.
ThresholdAlwaysBatch(isHidden, hiddenThreshold, batch) == batch

Threshold(isHidden, hiddenThreshold, batch) ==
  IF isHidden THEN hiddenThreshold ELSE batch

\* Mutant of shouldYield: the comparison is not strict.
shouldYieldAtThreshold(t, last, threshold) == t - last >= threshold

shouldYield(t, last, threshold) == t - last > threshold

hiddenThreshold(i) == OptionOr(args[i].options.hiddenThreshold, DEFAULT_HIDDEN_THRESHOLD)

items(i) == args[i].items.elems

\* The element the loop holds: the last one taken from the iterator.
item(i) == items(i)[cursor[i]]

\* Mutant of IteratorDone: the loop stops one element early.
IteratorDoneEarly(i) == cursor[i] + 1 >= Len(items(i))

\* The iterator of items has no further element.
IteratorDone(i) == cursor[i] = Len(items(i))

\* Mutant of InitialTimeOfLastYield: the variable starts at 0, not at the reading.
InitialTimeOfLastYieldZero(t) == 0

\* let timeOfLastYield = performance.now(), t being the reading.
InitialTimeOfLastYield(t) == t

\* Mutant of AfterSuspension: processFn(item) sits in the else branch of the
\* if, so an element that was suspended for is not processed.
AfterSuspensionSkipsItem == "loop"

\* Where a resumed invocation goes on: past the if, at processFn(item).
AfterSuspension == "process"

\* ------------------------------------------------------------------- init

InitHost ==
  /\ now = 0
  /\ hidden \in BOOLEAN
  /\ hasScheduler \in BOOLEAN
  /\ running = 0
  /\ pending = {}

InitInvocations(started) ==
  /\ args = [i \in Inv |-> NoArgs]
  /\ pc = [i \in Inv |-> IF i \in started THEN "init" ELSE "off"]
  /\ cursor = [i \in Inv |-> 0]
  /\ BATCH_DURATION = [i \in Inv |-> 0]
  /\ timeOfLastYield = [i \in Inv |-> 0]
  /\ calls = [i \in Inv |-> <<>>]
  /\ result = [i \in Inv |-> Pending]
  /\ thrown = [i \in Inv |-> 0]
  /\ timeouts = [i \in Inv |-> 0]
  /\ rafs = [i \in Inv |-> 0]
  /\ yields = [i \in Inv |-> 0]
  /\ clockReads = [i \in Inv |-> 0]
  /\ clockMoved = [i \in Inv |-> FALSE]
  /\ seen = [i \in Inv |-> {}]

Init == InitHost /\ InitInvocations({1})

InitTwo == InitHost /\ InitInvocations(Inv)

\* ----------------------------------------------------- host primitives

\* setTimeout(resolve, delay) and requestAnimationFrame(resolve), registered by
\* invocation i during its suspension number susp.
TimeoutCallback(i, delay, susp) ==
  [inv |-> i, kind |-> "timeout", delay |-> delay, susp |-> susp]

RafCallback(i, susp) ==
  [inv |-> i, kind |-> "raf", delay |-> 0, susp |-> susp]

\* Mutant of Awaited: every suspension awaits one shared promise, so that a
\* callback of an earlier suspension settles the present one.
AwaitedAnySuspension(cb) == pc[cb.inv] \in {"await_timeout", "await_race"}

\* cb belongs to the suspension its invocation is waiting in.
Awaited(cb) ==
  /\ pc[cb.inv] \in {"await_timeout", "await_race"}
  /\ cb.susp = timeouts[cb.inv]

\* Mutant of RaceSettled: only the paint callback is awaited.
RaceSettledByPaintOnly(fired) == "raf" \in fired

\* Mutant of RaceSettled: Promise.all in the place of Promise.race.
RaceSettledWhenAllFired(fired) == fired = {"timeout", "raf"}

\* Promise.race settles with the first of its promises to settle: fired is the
\* set of waits of the race that have fired.
RaceSettled(fired) == fired # {}

\* Mutant of YieldsAfter: scheduler.yield is called without being probed.
YieldsAfterUnprobed(path, scheduler) == path = "await_race"

\* Mutant of YieldsAfter: the yield sits after the if/else, on both paths.
YieldsAfterEitherPath(path, scheduler) == scheduler

\* Mutant of YieldsAfter: the yield step is missing.
YieldsAfterNever(path, scheduler) == FALSE

\* After the wait of a suspension the invocation calls scheduler.yield() on
\* the visible path only, and only if the host has it (lines 47, 55-61).
YieldsAfter(path, scheduler) == path = "await_race" /\ scheduler

\* Mutant of SetTimeOfLastYield: the variable is declared at module level,
\* one for all invocations.
SetTimeOfLastYieldShared(i, t) == [j \in Inv |-> t]

\* Mutant of SetTimeOfLastYield: the variable holds the next deadline, not
\* the time of the last yield.
SetTimeOfLastYieldDeadline(i, t) ==
  [timeOfLastYield EXCEPT ![i] = t + BATCH_DURATION[i]]

\* let timeOfLastYield is a local of the invocation: a write reaches only it.
SetTimeOfLastYield(i, t) == [timeOfLastYield EXCEPT ![i] = t]

\* -------------------------------------------------------------- actions

\* yieldyForLoop(items, processFn, options) up to the loop (lines 15-28).
Call(i, a) ==
  /\ running = 0
  /\ pc[i] = "init"
  /\ args' = [args EXCEPT ![i] = a]
  /\ LET err == ArgumentError(a.items, a.processFn)
     IN  IF err # ""
         THEN /\ pc' = [pc EXCEPT ![i] = "done"]
              /\ result' = [result EXCEPT ![i] = Rejected(err)]
              /\ UNCHANGED <<running, BATCH_DURATION, timeOfLastYield, clockReads,
                             clockMoved, seen>>
         ELSE /\ pc' = [pc EXCEPT ![i] = "loop"]
              /\ running' = i
              /\ BATCH_DURATION' =
                   [BATCH_DURATION EXCEPT ![i] = BatchDuration(OptionOr(a.options.fps, DEFAULT_FPS))]
              /\ timeOfLastYield' = SetTimeOfLastYield(i, InitialTimeOfLastYield(now))
              /\ clockReads' = [clockReads EXCEPT ![i] = 1]
              /\ clockMoved' = [clockMoved EXCEPT ![i] = FALSE]
              /\ seen' = [seen EXCEPT ![i] = {Visibility(hidden)}]
              /\ UNCHANGED result
  /\ UNCHANGED <<hostVars, pending, cursor, calls, thrown, counters>>

\* for (const item of items): the iterator is exhausted, the function returns.
Finish(i) ==
  /\ running = i
  /\ pc[i] = "loop"
  /\ IteratorDone(i)
  /\ pc' = [pc EXCEPT ![i] = "done"]
  /\ result' = [result EXCEPT ![i] = Resolved]
  /\ running' = 0
  /\ UNCHANGED <<hostVars, pending, args, cursor, BATCH_DURATION, timeOfLastYield,
                 calls, thrown, counters, clockReads, clockMoved, seen>>

\* Mutant of NextItem: the sequence is copied into a buffer at once.
NextItemBuffered(i) ==
  /\ running = i
  /\ pc[i] = "loop"
  /\ ~IteratorDone(i)
  /\ cursor' = [cursor EXCEPT ![i] = Len(items(i))]
  /\ pc' = [pc EXCEPT ![i] = "decide"]
  /\ UNCHANGED <<hostVars, running, pending, args, BATCH_DURATION, timeOfLastYield,
                 calls, result, thrown, counters, clockReads, clockMoved, seen>>

\* for (const item of items): the iterator yields the next element.
NextItem(i) ==
  /\ running = i
  /\ pc[i] = "loop"
  /\ ~IteratorDone(i)
  /\ cursor' = [cursor EXCEPT ![i] = @ + 1]
  /\ pc' = [pc EXCEPT ![i] = "decide"]
  /\ UNCHANGED <<hostVars, running, pending, args, BATCH_DURATION, timeOfLastYield,
                 calls, result, thrown, counters, clockReads, clockMoved, seen>>

\* if (shouldYield()) with its branches up to the await (lines 30-52).
Decide(i) ==
  /\ running = i
  /\ pc[i] = "decide"
  /\ clockReads' = [clockReads EXCEPT ![i] = @ + 1]
  /\ LET threshold == Threshold(hidden, hiddenThreshold(i), BATCH_DURATION[i])
         susp == timeouts[i] + 1
     IN  IF ~shouldYield(now, timeOfLastYield[i], threshold)
         THEN /\ pc' = [pc EXCEPT ![i] = "process"]
              /\ UNCHANGED <<running, pending, timeOfLastYield, counters>>
         ELSE /\ timeOfLastYield' = SetTimeOfLastYield(i, now)
              /\ running' = 0
              /\ timeouts' = [timeouts EXCEPT ![i] = susp]
              /\ IF hidden
                 THEN /\ pending' = pending \cup {TimeoutCallback(i, HIDDEN_TIMEOUT, susp)}
                      /\ pc' = [pc EXCEPT ![i] = "await_timeout"]
                      /\ UNCHANGED <<rafs, yields>>
                 ELSE /\ pending' = pending \cup {TimeoutCallback(i, RACE_TIMEOUT, susp),
                                                  RafCallback(i, susp)}
                      /\ rafs' = [rafs EXCEPT ![i] = @ + 1]
                      /\ pc' = [pc EXCEPT ![i] = "await_race"]
                      /\ UNCHANGED yields
  /\ UNCHANGED <<hostVars, args, cursor, BATCH_DURATION, calls, result, thrown,
                 clockMoved, seen>>

\* The host runs a registered callback.  When it settles the promise its
\* invocation awaits, the invocation resumes (lines 46 and 53-61); a callback
\* of a race already settled, or of an invocation that has ended, resolves a
\* settled promise, which does nothing.
Fire(cb) ==
  /\ running = 0
  /\ cb \in pending
  /\ pending' = pending \ {cb}
  /\ LET i == cb.inv
         fired == {"timeout", "raf"} \ {c.kind : c \in {d \in pending' : d.inv = i /\ d.susp = cb.susp}}
     IN  IF Awaited(cb) /\ (pc[i] = "await_timeout" \/ RaceSettled(fired))
         THEN /\ timeOfLastYield' = SetTimeOfLastYield(i, now)
              /\ clockReads' = [clockReads EXCEPT ![i] = @ + 1]
              /\ IF YieldsAfter(pc[i], hasScheduler)
                 THEN /\ yields' = [yields EXCEPT ![i] = @ + 1]
                      /\ pc' = [pc EXCEPT ![i] = "await_yield"]
                      /\ UNCHANGED running
                 ELSE /\ pc' = [pc EXCEPT ![i] = AfterSuspension]
                      /\ running' = i
                      /\ UNCHANGED yields
         ELSE UNCHANGED <<running, pc, timeOfLastYield, clockReads, yields>>
  /\ UNCHANGED <<hostVars, args, cursor, BATCH_DURATION, calls, result, thrown,
                 timeouts, rafs, clockMoved, seen>>

FireTimeout == \E cb \in pending : cb.kind = "timeout" /\ Fire(cb)

FireRaf == \E cb \in pending : cb.kind = "raf" /\ Fire(cb)

\* The promise of scheduler.yield() resolves: the invocation resumes (line 60).
YieldResolve(i) ==
  /\ running = 0
  /\ pc[i] = "await_yield"
  /\ pc' = [pc EXCEPT ![i] = AfterSuspension]
  /\ running' = i
  /\ UNCHANGED <<hostVars, pending, args, cursor, BATCH_DURATION, timeOfLastYield,
                 calls, result, thrown, counters, clockReads, clockMoved, seen>>

\* Mutant of YieldReject: the rejection is caught and another error thrown.
YieldRejectWrapped(i) ==
  /\ running = 0
  /\ pc[i] = "await_yield"
  /\ pc' = [pc EXCEPT ![i] = "done"]
  /\ result' = [result EXCEPT ![i] = Rejected("yield failed")]
  /\ UNCHANGED <<hostVars, running, pending, args, cursor, BATCH_DURATION,
                 timeOfLastYield, calls, thrown, counters, clockReads, clockMoved, seen>>

\* The promise of scheduler.yield() rejects: the await throws (line 60).
YieldReject(i) ==
  /\ running = 0
  /\ pc[i] = "await_yield"
  /\ pc' = [pc EXCEPT ![i] = "done"]
  /\ result' = [result EXCEPT ![i] = Rejected(YieldError)]
  /\ UNCHANGED <<hostVars, running, pending, args, cursor, BATCH_DURATION,
                 timeOfLastYield, calls, thrown, counters, clockReads, clockMoved, seen>>

\* Mutant of ProcessReturns: await processFn(item), which gives the thread
\* up after every element.
ProcessReturnsAwaited(i) ==
  /\ running = i
  /\ pc[i] = "process"
  /\ calls' = [calls EXCEPT ![i] = Append(@, item(i))]
  /\ pc' = [pc EXCEPT ![i] = "loop"]
  /\ running' = 0
  /\ UNCHANGED <<hostVars, pending, args, cursor, BATCH_DURATION,
                 timeOfLastYield, result, thrown, counters, clockReads, clockMoved, seen>>

\* processFn(item) returns (line 66).
ProcessReturns(i) ==
  /\ running = i
  /\ pc[i] = "process"
  /\ calls' = [calls EXCEPT ![i] = Append(@, item(i))]
  /\ pc' = [pc EXCEPT ![i] = "loop"]
  /\ UNCHANGED <<hostVars, running, pending, args, cursor, BATCH_DURATION,
                 timeOfLastYield, result, thrown, counters, clockReads, clockMoved, seen>>

\* Mutant of ProcessThrows: the error is caught and the loop goes on.
ProcessThrowsSwallowed(i) ==
  /\ running = i
  /\ pc[i] = "process"
  /\ calls' = [calls EXCEPT ![i] = Append(@, item(i))]
  /\ thrown' = [thrown EXCEPT ![i] = Len(calls[i]) + 1]
  /\ pc' = [pc EXCEPT ![i] = "loop"]
  /\ UNCHANGED <<hostVars, running, pending, args, cursor, BATCH_DURATION,
                 timeOfLastYield, result, counters, clockReads, clockMoved, seen>>

\* processFn(item) throws (line 66): the async function rejects with the error.
ProcessThrows(i) ==
  /\ running = i
  /\ pc[i] = "process"
  /\ calls' = [calls EXCEPT ![i] = Append(@, item(i))]
  /\ thrown' = [thrown EXCEPT ![i] = Len(calls[i]) + 1]
  /\ pc' = [pc EXCEPT ![i] = "done"]
  /\ result' = [result EXCEPT ![i] = Rejected(CallbackError)]
  /\ running' = 0
  /\ UNCHANGED <<hostVars, pending, args, cursor, BATCH_DURATION, timeOfLastYield,
                 counters, clockReads, clockMoved, seen>>

\* Time passes, whoever holds the thread.
Tick ==
  /\ now < MaxTime
  /\ now' = now + 1
  /\ clockMoved' = [i \in Inv |-> clockMoved[i] \/ Active(i)]
  /\ UNCHANGED <<hidden, hasScheduler, running, pending, args, pc, cursor,
                 BATCH_DURATION, timeOfLastYield, calls, result, thrown, counters,
                 clockReads, seen>>

\* The page is hidden or shown: a task of the host, never inside running code.
VisibilityChange ==
  /\ running = 0
  /\ hidden' = ~hidden
  /\ seen' = [i \in Inv |-> IF Active(i) THEN seen[i] \cup {Visibility(hidden')} ELSE seen[i]]
  /\ UNCHANGED <<now, hasScheduler, running, pending, args, pc, cursor,
                 BATCH_DURATION, timeOfLastYield, calls, result, thrown, counters,
                 clockReads, clockMoved>>

\* scheduler.yield is installed or removed (the code probes it at every
\* visible suspension, lines 56-59).
SchedulerChange ==
  /\ running = 0
  /\ hasScheduler' = ~hasScheduler
  /\ UNCHANGED <<now, hidden, running, pending, args, pc, cursor,
                 BATCH_DURATION, timeOfLastYield, calls, result, thrown, counters,
                 clockReads, clockMoved, seen>>

Step(i) ==
  \/ \E a \in CallArgs : Call(i, a)
  \/ Finish(i)
  \/ NextItem(i)
  \/ Decide(i)
  \/ YieldResolve(i)
  \/ YieldReject(i)
  \/ ProcessReturns(i)
  \/ ProcessThrows(i)

Next ==
  \/ \E i \in Inv : Step(i)
  \/ FireTimeout
  \/ FireRaf
  \/ Tick
  \/ VisibilityChange
  \/ SchedulerChange

\* One invocation in the host.
Spec == Init /\ [][Next]_vars

\* Two invocations interleaved in the host, each called with valid arguments:
\* the same sequence or another one, the same options or other ones.
CallArgsTwo(i) ==
  {[items |-> [kind |-> "array", elems |-> s], processFn |-> "function", options |-> o] :
     s \in (IF i = 1 THEN {<<"a", "b">>} ELSE {<<"a", "b">>, <<"b", "a">>}),
     o \in (IF i = 1 THEN {[fps |-> <<1000>>, hiddenThreshold |-> <<0>>]}
                      ELSE {[fps |-> <<1000>>, hiddenThreshold |-> <<0>>],
                            [fps |-> <<500>>, hiddenThreshold |-> <<0>>]})}

StepTwo(i) ==
  \/ \E a \in CallArgsTwo(i) : Call(i, a)
  \/ Finish(i)
  \/ NextItem(i)
  \/ Decide(i)
  \/ YieldResolve(i)
  \/ YieldReject(i)
  \/ ProcessReturns(i)
  \/ ProcessThrows(i)

NextTwo ==
  \/ \E i \in Inv : StepTwo(i)
  \/ FireTimeout
  \/ FireRaf
  \/ Tick
  \/ VisibilityChange
  \/ SchedulerChange

SpecTwo == InitTwo /\ [][NextTwo]_vars

\* The scheduling of the host: running code runs on to its next await or its
\* end, a registered timer fires, and the promise of scheduler.yield settles.
\* Nothing makes a paint callback fire (no frame is due in a page that does
\* not change).
Fairness ==
  /\ \A i \in Inv :
        /\ WF_vars(Finish(i) \/ NextItem(i) \/ Decide(i) \/ ProcessReturns(i) \/ ProcessThrows(i))
        /\ WF_vars(YieldResolve(i) \/ YieldReject(i))
  /\ WF_vars(FireTimeout)

FairSpec == Spec /\ Fairness

\* ------------------------------------------------------------- claims

IsPrefix(s, t) == Len(s) <= Len(t) /\ \A k \in 1..Len(s) : s[k] = t[k]

Called(i) == pc[i] \notin {"init", "off"}

\* C1: the callback is called with the elements of the sequence, in order,
\* none skipped, none twice; the promise resolves only after the call for the
\* last element has returned, and for an empty sequence without any call.
C1_CompleteInOrder ==
  \A i \in Inv :
    /\ IsPrefix(calls[i], items(i))
    /\ Len(calls[i]) \in {cursor[i], cursor[i] - 1}
    /\ result[i].state = "resolved" => calls[i] = items(i) /\ pc[i] = "done"

\* C1 witness: resolved after two calls, with a suspension on the way.
C1_Witness ==
  /\ result[1].state = "resolved"
  /\ calls[1] = <<"a", "b">>
  /\ timeouts[1] >= 1

\* C1 witness for the empty sequence.
C1_WitnessEmpty ==
  /\ result[1].state = "resolved"
  /\ args[1].items.kind = "array"
  /\ items(1) = <<>>

\* C2: what the callback observes does not depend on the clock, the
\* visibility, the order in which timers and paint signals fire, or the
\* presence of scheduler.yield: two invocations given the same sequence, run
\* at different times under different options, observe the same arguments in
\* the same order (one has observed a prefix of what the other has), and the
\* same whole sequence once both have resolved.
C2_SameCallsWhateverTheTiming ==
  \A i, j \in Inv :
    (Called(i) /\ Called(j) /\ items(i) = items(j)) =>
      /\ IsPrefix(calls[i], calls[j]) \/ IsPrefix(calls[j], calls[i])
      /\ (result[i].state = "resolved" /\ result[j].state = "resolved") => calls[i] = calls[j]

\* C2 witness: the same sequence, different options, one invocation
\* suspended on both paths and with scheduler.yield, the other never.
C2_Witness ==
  /\ items(1) = items(2)
  /\ args[1].options # args[2].options
  /\ result[1].state = "resolved" /\ result[2].state = "resolved"
  /\ calls[2] = <<"a", "b">>
  /\ timeouts[1] = 2 /\ rafs[1] = 1 /\ yields[1] = 1
  /\ timeouts[2] = 0

Settled(i) == result[i].state # "pending"

C3_Rejected ==
  \A i \in Inv :
    thrown[i] # 0 =>
      /\ result[i] = Rejected(CallbackError)
      /\ Len(calls[i]) = thrown[i]
      /\ pc[i] = "done"

C3_NothingAfterwards ==
  \A i \in Inv :
    Settled(i) =>
      /\ result'[i] = result[i]
      /\ calls'[i] = calls[i]
      /\ cursor'[i] = cursor[i]
      /\ timeouts'[i] = timeouts[i] /\ rafs'[i] = rafs[i] /\ yields'[i] = yields[i]
      /\ pc'[i] = pc[i]
      /\ {cb \in pending' : cb.inv = i} \subseteq pending

\* C3: when the callback throws on the k-th element the promise is rejected
\* with the error thrown, as it is, after exactly k calls; once the promise is
\* settled it never changes, and the invocation calls the callback no more,
\* takes no further element and registers no timer, paint callback or yield,
\* whichever callbacks of its earlier suspensions the host still runs.
C3_ThrowRejectsOnce == []C3_Rejected /\ [][C3_NothingAfterwards]_vars

\* C3 witness: the second call threw, and the paint callback of an earlier
\* suspension is still registered.
C3_Witness ==
  /\ thrown[1] = 2
  /\ result[1] = Rejected(CallbackError)
  /\ \E cb \in pending : cb.inv = 1 /\ cb.kind = "raf"

\* C4: with items not iterable or processFn not a function the promise is
\* rejected with the TypeError of the failed check and nothing else has
\* happened: no call of the callback, no clock reading, no element taken, no
\* timer, paint callback or yield.
C4_InvalidArgumentsRejectFirst ==
  \A i \in Inv :
    (Called(i) /\ (args[i].items.kind # "array" \/ args[i].processFn # "function")) =>
      /\ result[i] = Rejected(IF args[i].items.kind # "array"
                              THEN "items must be iterable"
                              ELSE "processFn must be a function")
      /\ calls[i] = <<>>
      /\ clockReads[i] = 0
      /\ cursor[i] = 0
      /\ timeouts[i] = 0 /\ rafs[i] = 0 /\ yields[i] = 0
      /\ ~\E cb \in pending : cb.inv = i

\* C4 witness: a sequence of two elements with a processFn that is a string.
C4_Witness ==
  /\ Called(1)
  /\ args[1].items.kind = "array" /\ Len(items(1)) = 2
  /\ args[1].processFn = "string"
  /\ result[1].state = "rejected"

\* The time budget of invocation i under the host's present visibility.
Budget(i) == IF hidden THEN hiddenThreshold(i) ELSE BATCH_DURATION[i]

\* Invocation i takes its decision for the element it holds in this step.
Decides(i) == pc[i] = "decide" /\ pc'[i] # "decide"

\* C5 as claimed: while an invocation holds the thread, after a callback has
\* returned, no more time than the budget has passed since it started or last
\* resumed.  (With no scheduler.yield used, timeOfLastYield is the time of the
\* start or of the last resumption.)
C5_NeverOverBudget ==
  \A i \in Inv :
    (running = i /\ pc[i] = "loop" /\ Len(calls[i]) >= 1 /\ yields[i] = 0
       /\ Budget(i) >= 1) =>
      now - timeOfLastYield[i] <= Budget(i)

\* C5, amended: the budget is enforced at the decision before each element
\* only.  A callback is invoked with no suspension before it only when the
\* time since the last suspension, read at that decision, is within the
\* budget; a stretch overruns the budget by no more than the time spent since
\* its last decision.
C5_WithinBudgetAtEachDecision ==
  [][\A i \in Inv :
       (Decides(i) /\ pc'[i] = "process") => now - timeOfLastYield[i] <= Budget(i)]_vars

\* C5 witness: a second element is let through with no suspension although
\* the clock has advanced, the time passed being within the budget.
C5_Witness ==
  /\ pc[1] = "process" /\ running = 1
  /\ cursor[1] = 2 /\ timeouts[1] = 0
  /\ clockMoved[1]
  /\ now - timeOfLastYield[1] >= 1

\* C6 as claimed: hidden for the whole run with a threshold of 0, a resolved
\* invocation has called setTimeout at least once per element.
C6_TimeoutPerElement ==
  \A i \in Inv :
    (result[i].state = "resolved" /\ seen[i] = {"hidden"} /\ hiddenThreshold(i) = 0) =>
      timeouts[i] >= Len(items(i))

\* C6, amended: hidden with a threshold of 0, an element takes the hidden
\* path, with one setTimeout of 1 ms and nothing else, when the clock read at
\* its decision is strictly later than timeOfLastYield; when the two are
\* equal the element is processed with no suspension.  setTimeout is called
\* at most once per element.
C6_TimeoutPerElementWhenClockAdvanced ==
  /\ [][\A i \in Inv :
          (Decides(i) /\ hidden /\ hiddenThreshold(i) = 0) =>
            IF now > timeOfLastYield[i]
            THEN /\ pc'[i] = "await_timeout"
                 /\ timeouts'[i] = timeouts[i] + 1
                 /\ pending' = pending \cup {TimeoutCallback(i, HIDDEN_TIMEOUT, timeouts'[i])}
                 /\ rafs'[i] = rafs[i] /\ yields'[i] = yields[i]
            ELSE /\ pc'[i] = "process"
                 /\ timeouts'[i] = timeouts[i]
                 /\ pending' = pending]_vars
  /\ [](\A i \in Inv : timeouts[i] <= cursor[i])

\* C6 witness: hidden throughout, threshold 0, the second of two elements is
\* suspended for as the first was.
C6_Witness ==
  /\ pc[1] = "await_timeout"
  /\ seen[1] = {"hidden"} /\ hiddenThreshold(1) = 0
  /\ cursor[1] = 2 /\ timeouts[1] = 2

\* C7: visible for the whole run and the clock never advancing, an
\* invocation with valid arguments registers no timer and no paint callback
\* and never calls scheduler.yield, and it ends resolved with every element
\* processed unless the callback threw.
C7_FrozenClockNoSuspension ==
  \A i \in Inv :
    (Called(i) /\ ArgumentError(args[i].items, args[i].processFn) = ""
       /\ seen[i] = {"visible"} /\ ~clockMoved[i]) =>
      /\ timeouts[i] = 0 /\ rafs[i] = 0 /\ yields[i] = 0
      /\ ~\E cb \in pending : cb.inv = i
      /\ pc[i] \in {"loop", "decide", "process", "done"}
      /\ (pc[i] = "done" /\ thrown[i] = 0) =>
           result[i] = Resolved /\ calls[i] = items(i)

\* C7 witness: started at a clock reading above 0 which never changed, two
\* elements processed, resolved.
C7_Witness ==
  /\ result[1] = Resolved
  /\ calls[1] = <<"a", "b">>
  /\ seen[1] = {"visible"} /\ ~clockMoved[1]
  /\ now > 0

\* C8: at the decision before an element the invocation suspends exactly
\* when now - timeOfLastYield > threshold, the threshold being hiddenThreshold
\* if the host is hidden at the decision and BATCH_DURATION otherwise.  When
\* it suspends, timeOfLastYield becomes now; when it does not, the element
\* goes to the callback, timeOfLastYield keeps its value and no timer, paint
\* callback or yield is invoked.
C8_SuspendIffOverThreshold ==
  [][\A i \in Inv :
       Decides(i) =>
         LET threshold == IF hidden THEN hiddenThreshold(i) ELSE BATCH_DURATION[i]
         IN  IF now - timeOfLastYield[i] > threshold
             THEN /\ pc'[i] \in {"await_timeout", "await_race"}
                  /\ timeOfLastYield'[i] = now
                  /\ timeouts'[i] = timeouts[i] + 1
                  /\ running' = 0
             ELSE /\ pc'[i] = "process"
                  /\ timeOfLastYield'[i] = timeOfLastYield[i]
                  /\ timeouts'[i] = timeouts[i] /\ rafs'[i] = rafs[i] /\ yields'[i] = yields[i]
                  /\ pending' = pending
                  /\ running' = i]_vars

\* C8 witness: visible, one millisecond over a batch duration of 1, the
\* invocation suspends and timeOfLastYield is the reading of the decision.
C8_Witness ==
  /\ pc[1] = "await_race"
  /\ BATCH_DURATION[1] = 1
  /\ timeOfLastYield[1] = now /\ now = 2
  /\ cursor[1] = 1

\* C8 witness: the time passed equals the threshold, so no suspension.
C8_WitnessAtThreshold ==
  /\ pc[1] = "process" /\ running = 1
  /\ ~hidden /\ BATCH_DURATION[1] = 2
  /\ timeouts[1] = 0 /\ cursor[1] = 1
  /\ now - timeOfLastYield[1] = 2

\* What invocation i owns.
Local(i) ==
  <<args[i], pc[i], cursor[i], BATCH_DURATION[i], timeOfLastYield[i], calls[i],
    result[i], thrown[i], timeouts[i], rafs[i], yields[i]>>

C9_OneInvocationPerStep ==
  \A i, j \in Inv :
    i # j =>
      /\ Local(i)' = Local(i) \/ Local(j)' = Local(j)
      /\ running = i => Local(j)' = Local(j)
      /\ (\E cb \in pending \ pending' : cb.inv = i) => Local(j)' = Local(j)
      /\ Called(i) => BATCH_DURATION'[i] = BATCH_DURATION[i]

\* C9: two interleaved invocations do not interfere.  No step changes what
\* both own; a step of the one holding the thread, and the firing of a timer
\* or paint callback one has registered, leave alone what the other owns
\* (its BATCH_DURATION, its timeOfLastYield, its position, its promise); the
\* BATCH_DURATION of each is fixed from its call on; and each calls its
\* callback with the elements of its own sequence, in order, all of them when
\* it resolves.
C9_NoInterference ==
  /\ [][C9_OneInvocationPerStep]_vars
  /\ [](\A i \in Inv :
          /\ IsPrefix(calls[i], items(i))
          /\ result[i].state = "resolved" => calls[i] = items(i))

\* C9 witness: both invocations suspended at once, on different sequences,
\* with different batch durations and different values of timeOfLastYield,
\* each having processed an element already.
C9_Witness ==
  /\ pc[1] \in {"await_timeout", "await_race"}
  /\ pc[2] \in {"await_timeout", "await_race"}
  /\ items(1) # items(2)
  /\ BATCH_DURATION[1] # BATCH_DURATION[2]
  /\ timeOfLastYield[1] # timeOfLastYield[2]
  /\ Len(calls[1]) = 1 /\ Len(calls[2]) = 1

\* C10: an invocation that has been called settles: it does not stay
\* suspended for ever, although the paint callback may never fire.
C10_EventuallySettles ==
  \A i \in Inv : Called(i) ~> Settled(i)

\* C10 witness: resolved after a visible suspension whose paint callback has
\* not fired.
C10_Witness ==
  /\ result[1] = Resolved
  /\ calls[1] = <<"a", "b">>
  /\ rafs[1] = 1
  /\ \E cb \in pending : cb.inv = 1 /\ cb.kind = "raf"

\* Invocation i leaves the wait of a suspension in this step.
LeavesWait(i) == pc[i] \in {"await_timeout", "await_race"} /\ pc'[i] # pc[i]

\* C11: a suspension taken while the host is visible registers one timer of
\* 100 ms and one paint callback and nothing else; when the race has settled
\* the invocation calls scheduler.yield() once and awaits it if the host has
\* it, and otherwise goes straight on to the callback with the element, its
\* promise still pending; awaiting the yield it calls no second one.
C11_VisibleSuspension ==
  [][\A i \in Inv :
       /\ (Decides(i) /\ pc'[i] # "process" /\ ~hidden) =>
            /\ pc'[i] = "await_race"
            /\ pending' = pending \cup
                 {[inv |-> i, kind |-> "timeout", delay |-> 100, susp |-> timeouts'[i]],
                  [inv |-> i, kind |-> "raf", delay |-> 0, susp |-> timeouts'[i]]}
            /\ Cardinality(pending') = Cardinality(pending) + 2
            /\ timeouts'[i] = timeouts[i] + 1 /\ rafs'[i] = rafs[i] + 1
            /\ yields'[i] = yields[i]
       /\ (pc[i] = "await_race" /\ pc'[i] # "await_race") =>
            IF hasScheduler
            THEN pc'[i] = "await_yield" /\ yields'[i] = yields[i] + 1 /\ running' = 0
            ELSE /\ pc'[i] = "process" /\ yields'[i] = yields[i] /\ running' = i
                 /\ result'[i] = Pending
       /\ pc[i] = "await_yield" =>
            /\ yields'[i] = yields[i]
            /\ pc'[i] \in {"await_yield", "process", "done"}
            /\ calls'[i] = calls[i]]_vars

\* C11 witness: a visible suspension with no scheduler.yield in the host has
\* ended and its element has gone to the callback.
C11_Witness ==
  /\ ~hasScheduler
  /\ rafs[1] = 1 /\ timeouts[1] = 1 /\ yields[1] = 0
  /\ pc[1] = "loop" /\ Len(calls[1]) = 1 /\ cursor[1] = 1

\* C11 witness: with scheduler.yield present the invocation awaits it.
C11_WitnessYield ==
  /\ pc[1] = "await_yield"
  /\ rafs[1] = 1 /\ timeouts[1] = 1 /\ yields[1] = 1

\* C12: a suspension taken while the host is hidden is one setTimeout of
\* 1 ms, with no paint callback and no yield; when the timer fires
\* timeOfLastYield becomes the clock reading of that moment and the
\* invocation goes on to the callback, with no scheduler.yield() even if the
\* host has it.
C12_HiddenSuspension ==
  [][\A i \in Inv :
       /\ (Decides(i) /\ pc'[i] # "process" /\ hidden) =>
            /\ pc'[i] = "await_timeout"
            /\ pending' = pending \cup
                 {[inv |-> i, kind |-> "timeout", delay |-> 1, susp |-> timeouts'[i]]}
            /\ Cardinality(pending') = Cardinality(pending) + 1
            /\ timeouts'[i] = timeouts[i] + 1
            /\ rafs'[i] = rafs[i] /\ yields'[i] = yields[i]
       /\ (pc[i] = "await_timeout" /\ pc'[i] # "await_timeout") =>
            /\ pc'[i] = "process" /\ running' = i
            /\ timeOfLastYield'[i] = now
            /\ timeouts'[i] = timeouts[i]
            /\ rafs'[i] = rafs[i] /\ yields'[i] = yields[i]
            /\ pending' \subseteq pending]_vars

\* C12 witness: resumed from a hidden suspension in a host that has
\* scheduler.yield, later than the suspension began.
C12_Witness ==
  /\ pc[1] = "process" /\ running = 1
  /\ hasScheduler
  /\ timeouts[1] = 1 /\ rafs[1] = 0 /\ yields[1] = 0
  /\ timeOfLastYield[1] = now /\ hiddenThreshold(1) = 0 /\ now = 3

\* C13: the clock never going back, timeOfLastYield never goes back either
\* and is never later than the clock, through every decision, both kinds of
\* suspension and whatever the host does in between.
C13_TimeOfLastYieldMonotonic ==
  /\ [](\A i \in Inv : Called(i) => timeOfLastYield[i] <= now)
  /\ [][\A i \in Inv : Called(i) => timeOfLastYield'[i] >= timeOfLastYield[i]]_vars

\* C13 witness: timeOfLastYield has grown at a decision and at two
\* resumptions, and the clock has moved on since.
C13_Witness ==
  /\ timeouts[1] = 2
  /\ pc[1] = "process"
  /\ timeOfLastYield[1] = 2 /\ now = 3

\* C14 as claimed: every decision sets timeOfLastYield to its clock reading,
\* suspension or not.
C14_UpdatedAtEveryDecision ==
  [][\A i \in Inv : Decides(i) => timeOfLastYield'[i] = now]_vars

\* C14, amended: timeOfLastYield starts as the clock reading of the call; a
\* decision that suspends sets it to its reading and the resumption sets it
\* again; a decision that does not suspend leaves it as it is, and nothing
\* else changes it.
C14_UpdatedOnlyWhenSuspending ==
  [][\A i \in Inv :
       /\ (pc[i] = "init" /\ pc'[i] = "loop") => timeOfLastYield'[i] = now
       /\ Decides(i) =>
            IF pc'[i] = "process"
            THEN timeOfLastYield'[i] = timeOfLastYield[i]
            ELSE timeOfLastYield'[i] = now
       /\ LeavesWait(i) => timeOfLastYield'[i] = now
       /\ (Called(i) /\ timeOfLastYield'[i] # timeOfLastYield[i]) =>
            Decides(i) \/ LeavesWait(i)]_vars

\* C14 witness: called at a clock reading of 1, the invocation has let two
\* elements through with no suspension while the clock went on, and
\* timeOfLastYield is still the reading of the call.
C14_Witness ==
  /\ pc[1] = "process" /\ cursor[1] = 2
  /\ timeouts[1] = 0 /\ BATCH_DURATION[1] = 2
  /\ timeOfLastYield[1] = 1 /\ now = 3

Suspended(i) == pc[i] \in {"await_timeout", "await_race", "await_yield"}

C15_HoldsTheThread ==
  \A i \in Inv : pc[i] \in {"loop", "decide", "process"} => running = i

C15_NothingElseRuns ==
  \A i \in Inv :
    running = i =>
      /\ hidden' = hidden /\ hasScheduler' = hasScheduler
      /\ pending \subseteq pending'
      /\ \A j \in Inv \ {i} : Local(j)' = Local(j)
      /\ running' # i => (running' = 0 /\ (Suspended(i)' \/ pc'[i] = "done"))

\* C15: from the return of one callback invocation to the next one the
\* invocation holds the thread unless it suspends: while it holds it no
\* registered callback runs, the visibility and the scheduler do not change and
\* the other invocation does not move; it gives the thread up only by
\* suspending or by ending.
C15_NoHostWorkWithoutSuspension ==
  []C15_HoldsTheThread /\ [][C15_NothingElseRuns]_vars

\* C15 witness: the other invocation is suspended, its timer is registered,
\* and this one is at its second callback invocation with no suspension.
C15_Witness ==
  /\ pc[2] = "await_timeout"
  /\ \E cb \in pending : cb.inv = 2 /\ Awaited(cb)
  /\ running = 1 /\ pc[1] = "process"
  /\ cursor[1] = 2 /\ Len(calls[1]) = 1 /\ timeouts[1] = 0

C16_SuspendedBeforeTheCall ==
  \A i \in Inv : Suspended(i) => Len(calls[i]) = cursor[i] - 1 /\ running # i

C16_CallAfterWholeSuspension ==
  \A i \in Inv :
    /\ calls'[i] # calls[i] => pc[i] = "process" /\ running = i
    /\ Suspended(i) => calls'[i] = calls[i]
    /\ (Decides(i) /\ now - timeOfLastYield[i] > Budget(i)) => Suspended(i)'
    /\ (pc[i] = "await_race" /\ hasScheduler /\ pc'[i] # pc[i]) => pc'[i] = "await_yield"

\* C16: when the decision for an element trips, the callback gets the element
\* only after the whole suspension: the timer on the hidden path, the race and
\* then the yield, if the host has it, on the visible path.  While an
\* invocation is suspended the element it holds has not gone to the callback
\* and no call of the callback is made.
C16_NoCallWhileSuspended ==
  []C16_SuspendedBeforeTheCall /\ [][C16_CallAfterWholeSuspension]_vars

\* C16 witness: the element has gone to the callback after a race and a yield.
C16_Witness ==
  /\ pc[1] = "loop" /\ cursor[1] = 1 /\ calls[1] = <<"a">>
  /\ timeouts[1] = 1 /\ rafs[1] = 1 /\ yields[1] = 1

\* The callbacks of the suspension invocation i is waiting in.
OfPresentSuspension(i, set) == {cb \in set : cb.inv = i /\ cb.susp = timeouts[i]}

C17_BothWaitsRegistered ==
  \A i \in Inv :
    pc[i] = "await_race" =>
      {cb.kind : cb \in OfPresentSuspension(i, pending)} = {"timeout", "raf"}

C17_FirstWaitEndsTheRace ==
  \A i \in Inv :
    (pc[i] = "await_race" /\ OfPresentSuspension(i, pending \ pending') # {}) =>
      /\ pc'[i] \in {"process", "await_yield"}
      /\ Cardinality(OfPresentSuspension(i, pending')) = 1

\* C17: the race of a visible suspension ends with the first of its two waits
\* to fire, the timer with the paint callback not yet fired or the paint
\* callback with the timer not yet fired: while the invocation waits in the race
\* neither has fired, and the firing of either one makes it go on, the other
\* one still registered.
C17_RaceEndsWithFirstWait ==
  []C17_BothWaitsRegistered /\ [][C17_FirstWaitEndsTheRace]_vars

\* C17 witness: the timer has ended the race, the paint callback has not fired.
C17_Witness ==
  /\ pc[1] = "process" /\ running = 1
  /\ timeouts[1] = 1 /\ rafs[1] = 1
  /\ {cb.kind : cb \in OfPresentSuspension(1, pending)} = {"raf"}

\* C17 witness: the paint callback has ended the race, the timer has not fired.
C17_WitnessPaint ==
  /\ pc[1] = "process" /\ running = 1
  /\ timeouts[1] = 1 /\ rafs[1] = 1
  /\ {cb.kind : cb \in OfPresentSuspension(1, pending)} = {"timeout"}

C18_RejectedByYield ==
  \A i \in Inv :
    result[i] = Rejected(YieldError) =>
      /\ pc[i] = "done"
      /\ yields[i] >= 1
      /\ thrown[i] = 0
      /\ Len(calls[i]) = cursor[i] - 1
      /\ IsPrefix(calls[i], items(i))

C18_YieldRejectionEnds ==
  \A i \in Inv :
    /\ (pc[i] = "await_yield" /\ pc'[i] \notin {"await_yield", "process"}) =>
         /\ pc'[i] = "done"
         /\ result'[i] = Rejected(YieldError)
         /\ calls'[i] = calls[i]
    /\ result[i] = Rejected(YieldError) =>
         /\ result'[i] = result[i]
         /\ calls'[i] = calls[i] /\ cursor'[i] = cursor[i] /\ pc'[i] = pc[i]

\* C18: when scheduler.yield() rejects, the promise of the invocation is
\* rejected with that error; the element the suspension was for has not gone
\* to the callback and neither it nor a later one ever does.
C18_YieldRejectionPropagates ==
  []C18_RejectedByYield /\ [][C18_YieldRejectionEnds]_vars

\* C18 witness: the yield of the suspension for the second element rejected;
\* the first element was processed, the second never.
C18_Witness ==
  /\ result[1] = Rejected(YieldError)
  /\ Len(items(1)) = 2 /\ cursor[1] = 2
  /\ calls[1] = <<"a">>

C19_LateFiringDoesNothing ==
  \A cb \in pending \ pending' :
    ~(pc[cb.inv] \in {"await_timeout", "await_race"} /\ cb.susp = timeouts[cb.inv]) =>
      /\ Local(cb.inv)' = Local(cb.inv)
      /\ clockReads'[cb.inv] = clockReads[cb.inv]
      /\ running' = running

C19_LoserStaysRegistered ==
  \A i \in Inv :
    (pc[i] = "await_race" /\ pc'[i] # "await_race") =>
      OfPresentSuspension(i, pending') # {}

\* C19: the wait that loses a race stays registered and fires when the host
\* pleases; the firing of a callback that is not of the suspension its
\* invocation is waiting in (the invocation runs on, waits in a later
\* suspension, awaits a yield or has ended) changes nothing of the invocation:
\* not its position, not timeOfLastYield, not its calls, and it reads no clock.
C19_LateFiringIsInert ==
  [][C19_LateFiringDoesNothing]_vars /\ [][C19_LoserStaysRegistered]_vars

\* C19 witness: the invocation waits in its second suspension and a callback
\* of its first is still registered.
C19_Witness ==
  /\ pc[1] \in {"await_timeout", "await_race"}
  /\ timeouts[1] = 2
  /\ \E cb \in pending : cb.inv = 1 /\ cb.susp = 1

C20_AtMostOneInHand ==
  \A i \in Inv :
    /\ cursor[i] - Len(calls[i]) \in {0, 1}
    /\ cursor[i] <= Len(items(i))
    /\ pc[i] = "init" => cursor[i] = 0

C20_TakenOneAtATime ==
  \A i \in Inv :
    cursor'[i] # cursor[i] =>
      /\ cursor'[i] = cursor[i] + 1
      /\ Len(calls[i]) = cursor[i]
      /\ pc[i] = "loop" /\ running = i

\* C20: the sequence is consumed one element at a time: at most one element
\* has been taken and not yet passed to the callback, and an element is taken
\* only when the callback has returned for every element taken before.
C20_LazyNoBuffering ==
  []C20_AtMostOneInHand /\ [][C20_TakenOneAtATime]_vars

\* C20 witness: suspended with the second element in hand, the first one
\* processed.
C20_Witness ==
  /\ pc[1] = "await_race"
  /\ cursor[1] = 2 /\ Len(calls[1]) = 1
  /\ Len(items(1)) = 2

====
